---- MODULE Spec2Model ----
(***************************************************************************)
(* Model of the event-graph core of synapse:                               *)
(*   - BaseHandler._create_new_client_event / handle_new_client_event      *)
(*     (synapse/handlers/_base.py),                                        *)
(*   - StateStore._store_state_groups_txn / get_state_groups               *)
(*     (synapse/storage/state.py),                                         *)
(*   - the TreeCache exercised by tests/util/test_treecache.py,            *)
(*   - ReceiptsHandler (synapse/handlers/receipts.py).                     *)
(*                                                                         *)
(* Conventions.  A Python value that may be None is a sequence of length   *)
(* at most one: None is << >> and a present value v is << v >>.  A Python  *)
(* string that the code takes apart (a user id) is a sequence of tokens.   *)
(* A dict is a function; a table is a bag of rows.                         *)
(***************************************************************************)
EXTENDS Bags, FiniteSets, Integers, Sequences, TLC

None == << >>
Some(v) == << v >>
Val(o) == o[1]

EmptyDict == [k \in {} |-> 0]
DictPut(d, k, v) == [x \in DOMAIN d \cup {k} |-> IF x = k THEN v ELSE d[x]]
DictDel(d, k) == [x \in DOMAIN d \ {k} |-> d[x]]

(***************************************************************************)
(* Bounds.                                                                 *)
(***************************************************************************)
KeyLen == 2

VARIABLES
    root,                   \* the TreeCache's root node
    cacheOp,                \* the last cache operation and what it returned
    events,                 \* the events table: event_id -> persisted event
    forward_extremities,    \* event ids of the room with no known child
    state_groups,           \* table state_groups (bag of rows)
    state_groups_state,     \* table state_groups_state (bag of rows)
    event_to_state_groups,  \* table event_to_state_groups (bag of rows)
    state_groups_id_gen,    \* last id handed out by _state_groups_id_gen
    next_event_id,          \* event ids handed out by builder.build()
    notified,               \* event ids handed to notifier.on_new_room_event
    procs,                  \* the handler invocations that may run
    pc, builder, latest_ret, event, context, args, error, destinations,
    trace,                  \* collaborator calls of each handler invocation, in order
    storeLog,               \* (event, context) pairs given to storeState
    receipts,               \* stored receipts: (room, type, user) -> record
    receipt_stream_id,      \* greatest stream position handed out for a receipt
    rpc,                    \* position of the receipts handler
    rcall,                  \* the receipts handler's current invocation
    rtrace,                 \* its collaborator calls, in order
    receiptLog              \* (room, type, user, event ids) given to insert_receipt

storeVars == <<events, forward_extremities, state_groups, state_groups_state,
               event_to_state_groups, state_groups_id_gen>>
procVars == <<pc, builder, latest_ret, event, context, args, error,
              destinations, trace>>
receiptVars == <<receipts, receipt_stream_id, rpc, rcall, rtrace, receiptLog>>
pipelineVars == <<storeVars, procVars, next_event_id, notified, procs, storeLog,
                  receiptVars>>
vars == <<root, cacheOp, events, forward_extremities, state_groups,
          state_groups_state, event_to_state_groups, state_groups_id_gen,
          next_event_id, notified, procs, pc, builder, latest_ret, event,
          context, args, error, destinations, trace, storeLog, receipts,
          receipt_stream_id, rpc, rcall, rtrace, receiptLog>>

(***************************************************************************)
(* TreeCache (synapse.util.caches.treecache): a trie over fixed-length     *)
(* tuple keys.  Each node is a dict from the next key segment to a child   *)
(* node or, at the last segment, to the stored value.                      *)
(***************************************************************************)
Segs == {"a", "b"}
CacheVals == {"A", "B"}

RECURSIVE TuplesOfLen(_)
TuplesOfLen(n) ==
    IF n = 0 THEN {<< >>}
    ELSE {<<s>> \o t : s \in Segs, t \in TuplesOfLen(n - 1)}

FullKeys == TuplesOfLen(KeyLen)
StrictPrefixes == UNION {TuplesOfLen(n) : n \in 1..(KeyLen - 1)}

IsPrefix(p, k) == Len(p) <= Len(k) /\ SubSeq(k, 1, Len(p)) = p

\* set: walk/create the nodes of key[:-1], then node[key[-1]] = value
RECURSIVE TreeSet(_, _, _)
TreeSet(node, key, value) ==
    IF Len(key) = 1
    THEN DictPut(node, key[1], value)
    ELSE LET child == IF key[1] \in DOMAIN node THEN node[key[1]] ELSE EmptyDict
         IN  DictPut(node, key[1], TreeSet(child, Tail(key), value))

\* get: walk key[:-1], a missing node gives the default (None); then
\* node.get(key[-1], default)
RECURSIVE TreeGet(_, _)
TreeGet(node, key) ==
    IF key[1] \notin DOMAIN node THEN None
    ELSE IF Len(key) = 1 THEN Some(node[key[1]])
    ELSE TreeGet(node[key[1]], Tail(key))

\* what pop returns: the leaf value of a full key, the removed subtree of a
\* prefix, the default (None) when the path does not exist
TreePopped(node, key) == TreeGet(node, key)

\* mutants of TreePop: a pop that returns the entry but leaves it in the
\* cache, and a pop that drops the whole first-level branch of the key
TreePopKeep(node, key) == node

TreePopBranch(node, key) == DictDel(node, key[1])

\* pop: remove the entry at the end of the path and prune every node on the
\* path that is left without children
RECURSIVE TreePop(_, _)
TreePop(node, key) ==
    IF key[1] \notin DOMAIN node THEN node
    ELSE IF Len(key) = 1 THEN DictDel(node, key[1])
    ELSE LET child == TreePop(node[key[1]], Tail(key))
         IN  IF DOMAIN child = {}
             THEN DictDel(node, key[1])
             ELSE DictPut(node, key[1], child)

CacheInit ==
    /\ root = EmptyDict
    /\ cacheOp = [op |-> "init", key |-> << >>, ret |-> None]

CacheSet(key, value) ==
    /\ root' = TreeSet(root, key, value)
    /\ cacheOp' = [op |-> "set", key |-> key, ret |-> None]
    /\ UNCHANGED pipelineVars

CacheGet(key) ==
    /\ root' = root
    /\ cacheOp' = [op |-> "get", key |-> key, ret |-> TreeGet(root, key)]
    /\ UNCHANGED pipelineVars

CachePop(key) ==
    /\ root' = TreePop(root, key)
    /\ cacheOp' = [op |-> "pop", key |-> key, ret |-> TreePopped(root, key)]
    /\ UNCHANGED pipelineVars

(***************************************************************************)
(* Events, identifiers and the collaborators of BaseHandler.               *)
(***************************************************************************)
MaxEvents == 3

EventTypes_Member == "m.room.member"
EventTypes_Message == "m.room.message"
EventTypes_Topic == "m.room.topic"
Membership_JOIN == "join"
Membership_INVITE == "invite"
Membership_LEAVE == "leave"

server_name == <<"me">>
RoomId == "!room"

\* user ids as token sequences: "@a:h1" is << "@", "a", ":", "h1" >>
UserA == <<"@", "a", ":", "h1">>
UserB == <<"@", "b", ":", "h2">>
UserLocal == <<"@", "c", ":", "me">>
UserBad == <<"@", "d">>

\* hs.parse_userid: the id must start with the sigil and contain a ":";
\* anything else raises SynapseError.  The domain is what follows the first
\* ":".
ParseOk(s) == Len(s) >= 1 /\ s[1] = "@" /\ \E i \in 2..Len(s) : s[i] = ":"
FirstColon(s) == CHOOSE i \in 2..Len(s) :
                    s[i] = ":" /\ \A j \in 2..(i - 1) : s[j] # ":"
parse_userid(s) ==
    [localpart |-> SubSeq(s, 2, FirstColon(s) - 1),
     domain |-> SubSeq(s, FirstColon(s) + 1, Len(s))]
is_mine(user) == user.domain = server_name

\* what a client may ask the handler to build
Builders ==
    { [room_id |-> RoomId, type |-> EventTypes_Message, state_key |-> None,
       content |-> [body |-> "hi"]],
      [room_id |-> RoomId, type |-> EventTypes_Topic, state_key |-> Some(<< >>),
       content |-> [topic |-> "t"]],
      [room_id |-> RoomId, type |-> EventTypes_Member, state_key |-> Some(UserA),
       content |-> [membership |-> Membership_JOIN]],
      [room_id |-> RoomId, type |-> EventTypes_Member, state_key |-> Some(UserB),
       content |-> [membership |-> Membership_JOIN]],
      [room_id |-> RoomId, type |-> EventTypes_Member, state_key |-> Some(UserA),
       content |-> [membership |-> Membership_LEAVE]],
      [room_id |-> RoomId, type |-> EventTypes_Member, state_key |-> Some(UserB),
       content |-> [membership |-> Membership_INVITE]],
      [room_id |-> RoomId, type |-> EventTypes_Member, state_key |-> Some(UserLocal),
       content |-> [membership |-> Membership_INVITE]],
      [room_id |-> RoomId, type |-> EventTypes_Member, state_key |-> Some(UserBad),
       content |-> [membership |-> Membership_JOIN]],
      [room_id |-> RoomId, type |-> EventTypes_Member, state_key |-> Some(UserB),
       content |-> [body |-> "no membership"]] }

ExtraDestinationChoices == { {}, {<<"h9">>} }

is_state(e) == e.state_key # None
StateKeyOf(e) == <<e.type, Val(e.state_key)>>

Range(f) == {f[x] : x \in DOMAIN f}

RECURSIVE SortedSeq(_)
SortedSeq(S) ==
    IF S = {} THEN << >>
    ELSE LET m == CHOOSE x \in S : \A y \in S : x <= y
         IN  <<m>> \o SortedSeq(S \ {m})

MaxOf(S) == CHOOSE x \in S : \A y \in S : y <= x

\* reference hash of an event (opaque to the handler)
HashOf(event_id) == [sha256 |-> event_id]

(***************************************************************************)
(* StateStore (synapse/storage/state.py).                                  *)
(***************************************************************************)
\* _simple_insert_txn: INSERT one row
SimpleInsert(table, row) == table (+) SetToBag({row})

StateRow(state_group, state) ==
    [state_group |-> state_group, room_id |-> state.room_id,
     type |-> state.type, state_key |-> Val(state.state_key),
     event_id |-> state.event_id]

\* the loop "for state in state_events.values(): insert"
RECURSIVE InsertStateRows(_, _, _, _)
InsertStateRows(table, state_group, state_events, keys) ==
    IF keys = {} THEN table
    ELSE LET k == CHOOSE x \in keys : TRUE
         IN  InsertStateRows(
                 SimpleInsert(table, StateRow(state_group, state_events[k])),
                 state_group, state_events, keys \ {k})

Tables(sg, sgs, e2sg, gen) ==
    [state_groups |-> sg, state_groups_state |-> sgs,
     event_to_state_groups |-> e2sg, state_groups_id_gen |-> gen]

\* _state_groups_id_gen.get_next_txn: the next unused id
get_next_txn(gen) == gen + 1

\* mutant of StateEventsOf: the event's own entry is not put into the state
StateEventsWithoutEvent(ev, ctx) == Val(ctx.current_state)

\* lines 85-88: the state to store is the context's state with the entry of
\* a state event replaced by the event itself
StateEventsOf(ev, ctx) ==
    IF is_state(ev)
    THEN DictPut(Val(ctx.current_state), StateKeyOf(ev), ev)
    ELSE Val(ctx.current_state)

\* mutant of NeedsNewGroup: an inherited group is ignored
NeedsNewGroupAlways(ctx) == TRUE

\* lines 90-91: "if not state_group"
NeedsNewGroup(ctx) == ctx.state_group = 0

\* mutant of store_state_groups_txn: the state_groups_state rows are written
\* for an inherited group as well
store_state_groups_txn_rewriting(db, ev, ctx) ==
    IF ctx.current_state = None THEN db
    ELSE
      LET state_events == StateEventsOf(ev, ctx)
          fresh == NeedsNewGroup(ctx)
          state_group == IF fresh THEN get_next_txn(db.state_groups_id_gen)
                         ELSE ctx.state_group
      IN  Tables(
            IF fresh
            THEN SimpleInsert(db.state_groups,
                     [id |-> state_group, room_id |-> ev.room_id,
                      event_id |-> ev.event_id])
            ELSE db.state_groups,
            InsertStateRows(db.state_groups_state, state_group,
                            state_events, DOMAIN state_events),
            SimpleInsert(db.event_to_state_groups,
                     [state_group |-> state_group, event_id |-> ev.event_id]),
            IF fresh THEN state_group ELSE db.state_groups_id_gen)

\* _store_state_groups_txn(txn, event, context) on the tables db
store_state_groups_txn(db, ev, ctx) ==
    IF ctx.current_state = None THEN db
    ELSE
      LET state_events == StateEventsOf(ev, ctx)
          fresh == NeedsNewGroup(ctx)
          state_group == IF fresh THEN get_next_txn(db.state_groups_id_gen)
                         ELSE ctx.state_group
      IN  Tables(
            IF fresh
            THEN SimpleInsert(db.state_groups,
                     [id |-> state_group, room_id |-> ev.room_id,
                      event_id |-> ev.event_id])
            ELSE db.state_groups,
            IF fresh
            THEN InsertStateRows(db.state_groups_state, state_group,
                                 state_events, DOMAIN state_events)
            ELSE db.state_groups_state,
            SimpleInsert(db.event_to_state_groups,
                     [state_group |-> state_group, event_id |-> ev.event_id]),
            IF fresh THEN state_group ELSE db.state_groups_id_gen)

\* _simple_select_one_onecol_txn on event_to_state_groups with
\* allow_none=True: the state_group of the event's row, None (0) without one
SelectStateGroup(db, event_id) ==
    LET rows == {x \in BagToSet(db.event_to_state_groups) :
                    x.event_id = event_id}
    IN  IF rows = {} THEN 0 ELSE (CHOOSE x \in rows : TRUE).state_group

\* mutant of KeepsGroup: the result of every lookup is kept
KeepsGroupAlways(group) == TRUE

\* line 63: "if group:"
KeepsGroup(group) == group # 0

\* _retrieve_events with the INNER JOIN on state_groups_state: the events of
\* the events table that the rows of the group name
RetrieveStateEvents(db, evs, group) ==
    {evs[r.event_id] : r \in
        {x \in BagToSet(db.state_groups_state) :
            x.state_group = group /\ x.event_id \in DOMAIN evs}}

\* get_state_groups(event_ids): the groups linked to the events, each with the
\* events of the events table that its state_groups_state rows name
get_state_groups(db, evs, event_ids) ==
    LET groups == {g \in {SelectStateGroup(db, event_id) :
                             event_id \in event_ids} : KeepsGroup(g)}
    IN  [g \in groups |-> RetrieveStateEvents(db, evs, g)]

(***************************************************************************)
(* Storage and state-handler collaborators used by BaseHandler.            *)
(***************************************************************************)
DB == Tables(state_groups, state_groups_state, event_to_state_groups,
             state_groups_id_gen)

\* store.get_latest_events_in_room: (event_id, hash, depth) of every forward
\* extremity of the room
get_latest_events_in_room ==
    LET ids == SortedSeq(forward_extremities)
    IN  [i \in 1..Len(ids) |-> <<ids[i], HashOf(ids[i]), events[ids[i]].depth>>]

EventContext == [current_state |-> None, state_group |-> 0]

StateDict(state_set) ==
    [k \in {StateKeyOf(s) : s \in state_set} |->
        CHOOSE s \in state_set : StateKeyOf(s) = k]

\* fork resolution: per key the entry of greatest depth, ties by event id
ResolveStates(state_sets) ==
    LET all == UNION state_sets
        Wins(s, t) == \/ s.depth > t.depth
                      \/ s.depth = t.depth /\ s.event_id >= t.event_id
    IN  [k \in {StateKeyOf(s) : s \in all} |->
            CHOOSE s \in all :
                /\ StateKeyOf(s) = k
                /\ \A t \in all : StateKeyOf(t) = k => Wins(s, t)]

\* state_handler.annotate_context_with_state: the state implied by the
\* parents; a non-state event with a single parent group inherits the group
annotate_context_with_state(b, evs, db) ==
    LET ids == {b.prev_events[i][1] : i \in DOMAIN b.prev_events}
        groups == get_state_groups(db, evs, ids)
        single == Cardinality(DOMAIN groups) = 1
        g == CHOOSE x \in DOMAIN groups : TRUE
        state == IF DOMAIN groups = {} THEN EmptyDict
                 ELSE IF single THEN StateDict(groups[g])
                 ELSE ResolveStates(Range(groups))
    IN  [current_state |-> Some(state),
         state_group |-> IF single /\ ~is_state(b) THEN g ELSE 0]

\* add_hashes_and_signatures: the event is signed by this server
OwnSignature == [s \in {server_name} |-> "sig"]

\* federation_handler.send_invite: the invitee's server co-signs the event
returned_invite_signatures(ev, domain) == DictPut(ev.signatures, domain, "sig")

\* dict.update
DictUpdate(d, other) ==
    [x \in DOMAIN d \cup DOMAIN other |-> IF x \in DOMAIN other THEN other[x] ELSE d[x]]

(***************************************************************************)
(* BaseHandler._create_new_client_event (synapse/handlers/_base.py).       *)
(***************************************************************************)
\* lines 72-75
DepthOf(latest) ==
    IF Len(latest) > 0
    THEN MaxOf({latest[i][3] : i \in DOMAIN latest})
    ELSE 1

\* mutant of PrevEventsOf: the last extremity is dropped
PrevEventsDropLast(latest) ==
    [i \in 1..(Len(latest) - 1) |-> <<latest[i][1], latest[i][2]>>]

\* line 77
PrevEventsOf(latest) ==
    [i \in DOMAIN latest |-> <<latest[i][1], latest[i][2]>>]

NoError == [exc |-> "", at |-> ""]
NoEvent == [event_id |-> 0]
NoArgs == [extra_destinations |-> {}, suppress_auth |-> FALSE, auth |-> ""]
NoBuilder == [room_id |-> RoomId]

\* a caller starts _create_new_client_event(builder): lines 63-66
Create(p, b) ==
    /\ pc[p] \in {"idle", "done", "failed"}
    /\ next_event_id <= MaxEvents
    /\ pc' = [pc EXCEPT ![p] = "get_latest"]
    /\ builder' = [builder EXCEPT ![p] = b]
    /\ context' = [context EXCEPT ![p] = EventContext]
    /\ latest_ret' = [latest_ret EXCEPT ![p] = << >>]
    /\ event' = [event EXCEPT ![p] = NoEvent]
    /\ args' = [args EXCEPT ![p] = NoArgs]
    /\ error' = [error EXCEPT ![p] = NoError]
    /\ destinations' = [destinations EXCEPT ![p] = {}]
    /\ trace' = [trace EXCEPT ![p] = << >>]
    /\ UNCHANGED <<root, cacheOp, receiptVars, storeVars, next_event_id, notified, procs,
                   storeLog>>

\* the events that other invocations have built and not yet persisted
UnpersistedOf(others) ==
    {event[q].event_id : q \in {x \in others : event[x] # NoEvent}}
        \ DOMAIN events

\* mutant of GetLatest: the events that other invocations have built but not
\* persisted are read as extremities too
GetLatestSeeingUnpersisted(p) ==
    /\ pc[p] = "get_latest"
    /\ LET ids == SortedSeq(UnpersistedOf(procs \ {p}))
           latest == get_latest_events_in_room \o
                         [i \in 1..Len(ids) |->
                             <<ids[i], HashOf(ids[i]),
                               event[CHOOSE q \in procs :
                                   event[q].event_id = ids[i]].depth>>]
       IN  /\ latest_ret' = [latest_ret EXCEPT ![p] = latest]
           /\ builder' = [builder EXCEPT ![p] =
                  [room_id |-> builder[p].room_id, type |-> builder[p].type,
                   state_key |-> builder[p].state_key,
                   content |-> builder[p].content,
                   prev_events |-> PrevEventsOf(latest),
                   depth |-> DepthOf(latest)]]
    /\ pc' = [pc EXCEPT ![p] = "annotate"]
    /\ UNCHANGED <<root, cacheOp, receiptVars, storeVars, next_event_id,
                   notified, trace, procs, event, context, args, error,
                   destinations, storeLog>>

\* lines 68-80
GetLatest(p) ==
    /\ pc[p] = "get_latest"
    /\ LET latest == get_latest_events_in_room
       IN  /\ latest_ret' = [latest_ret EXCEPT ![p] = latest]
           /\ builder' = [builder EXCEPT ![p] =
                  [room_id |-> builder[p].room_id, type |-> builder[p].type,
                   state_key |-> builder[p].state_key,
                   content |-> builder[p].content,
                   prev_events |-> PrevEventsOf(latest),
                   depth |-> DepthOf(latest)]]
    /\ pc' = [pc EXCEPT ![p] = "annotate"]
    /\ UNCHANGED <<root, cacheOp, receiptVars, storeVars, next_event_id, notified, trace, procs,
                   event, context, args, error, destinations, storeLog>>

\* mutant of Annotate: annotating the context takes a state group id
AnnotateAllocating(p) ==
    /\ pc[p] = "annotate"
    /\ context' = [context EXCEPT ![p] =
           annotate_context_with_state(builder[p], events, DB)]
    /\ state_groups_id_gen' = get_next_txn(state_groups_id_gen)
    /\ pc' = [pc EXCEPT ![p] = "build"]
    /\ UNCHANGED <<root, cacheOp, receiptVars, events, forward_extremities, state_groups,
                   state_groups_state, event_to_state_groups, next_event_id,
                   notified, trace, procs, builder, latest_ret, event, args,
                   error, destinations, storeLog>>

\* lines 82-90
Annotate(p) ==
    /\ pc[p] = "annotate"
    /\ context' = [context EXCEPT ![p] =
           annotate_context_with_state(builder[p], events, DB)]
    /\ pc' = [pc EXCEPT ![p] = "build"]
    /\ UNCHANGED <<root, cacheOp, receiptVars, storeVars, next_event_id, notified, trace, procs,
                   builder, latest_ret, event, args, error, destinations, storeLog>>

\* lines 92-102
Build(p) ==
    /\ pc[p] = "build"
    /\ event' = [event EXCEPT ![p] =
           [event_id |-> next_event_id, room_id |-> builder[p].room_id,
            type |-> builder[p].type, state_key |-> builder[p].state_key,
            content |-> builder[p].content,
            prev_events |-> builder[p].prev_events,
            depth |-> builder[p].depth, signatures |-> OwnSignature]]
    /\ next_event_id' = next_event_id + 1
    /\ pc' = [pc EXCEPT ![p] = "created"]
    /\ UNCHANGED <<root, cacheOp, receiptVars, storeVars, notified, trace, procs, builder,
                   latest_ret, context, args, error, destinations, storeLog>>

(***************************************************************************)
(* BaseHandler.handle_new_client_event (synapse/handlers/_base.py).        *)
(***************************************************************************)
Call(op, event_id, arg) == [op |-> op, event_id |-> event_id, arg |-> arg]

Traced(p, call) == trace' = [trace EXCEPT ![p] = Append(@, call)]

Fail(p, exc, at) ==
    /\ pc' = [pc EXCEPT ![p] = "failed"]
    /\ error' = [error EXCEPT ![p] = [exc |-> exc, at |-> at]]

\* a caller hands the created event to handle_new_client_event, with the
\* context that came with it or with a context that carries no state
\* (EventContext()): lines 105-107
Handle(p, extra_destinations, suppress_auth, ctx) ==
    /\ pc[p] = "created"
    /\ args' = [args EXCEPT ![p] =
           [extra_destinations |-> extra_destinations,
            suppress_auth |-> suppress_auth, auth |-> ""]]
    /\ context' = [context EXCEPT ![p] = ctx]
    /\ pc' = [pc EXCEPT ![p] = "auth_check"]
    /\ UNCHANGED <<root, cacheOp, receiptVars, storeVars, next_event_id, notified, trace, procs,
                   builder, latest_ret, event, error, destinations, storeLog>>

\* mutant of AuthPasses: the result of the check is ignored
AuthPassesAlways(suppress_auth, allowed) == TRUE

\* lines 111-112: auth.check raises unless the check is suppressed
AuthPasses(suppress_auth, allowed) == suppress_auth \/ allowed

\* args[p].auth records what auth.check answered, "" when it was not asked
AuthCheck(p, allowed) ==
    /\ pc[p] = "auth_check"
    /\ args' = [args EXCEPT ![p].auth =
           IF args[p].suppress_auth THEN ""
           ELSE IF allowed THEN "allowed" ELSE "rejected"]
    /\ IF AuthPasses(args[p].suppress_auth, allowed)
       THEN pc' = [pc EXCEPT ![p] = "persist"] /\ UNCHANGED error
       ELSE Fail(p, "AuthError", "auth_check")
    /\ UNCHANGED <<root, cacheOp, receiptVars, storeVars, next_event_id, notified, trace,
                   procs, builder, latest_ret, event, context, destinations,
                   storeLog>>

\* mutant of AfterPersist: a failure of persist_event is swallowed
AfterPersistSwallow(ok) == "invite_check"

\* line 114: an exception of persist_event leaves the handler
AfterPersist(ok) == IF ok THEN "invite_check" ELSE "failed"

\* store.persist_event(event, context): one transaction that writes the event,
\* moves the forward extremities and stores the state group; a failure rolls
\* everything back
PersistEvent(p, ok) ==
    /\ pc[p] = "persist"
    /\ pc' = [pc EXCEPT ![p] = AfterPersist(ok)]
    /\ error' = [error EXCEPT ![p] =
           IF ok THEN NoError ELSE [exc |-> "StoreError", at |-> "persist"]]
    /\ IF ok
       THEN LET ev == event[p]
                db == store_state_groups_txn(DB, ev, context[p])
            IN  /\ events' = DictPut(events, ev.event_id, ev)
                /\ forward_extremities' =
                       (forward_extremities \
                           {ev.prev_events[i][1] : i \in DOMAIN ev.prev_events})
                       \cup {ev.event_id}
                /\ state_groups' = db.state_groups
                /\ state_groups_state' = db.state_groups_state
                /\ event_to_state_groups' = db.event_to_state_groups
                /\ state_groups_id_gen' = db.state_groups_id_gen
                /\ Traced(p, Call("persist_event", ev.event_id, {}))
       ELSE UNCHANGED <<storeVars, trace>>
    /\ UNCHANGED <<root, cacheOp, receiptVars, next_event_id, notified, procs, builder, latest_ret,
                   event, context, args, destinations, storeLog>>

\* mutant of InviteOutcome: the invitee's server is not compared with this one
InviteOutcomeAnyInvitee(ev) ==
    IF ev.type # EventTypes_Member
    THEN [exc |-> "", invite |-> FALSE]
    ELSE IF "membership" \notin DOMAIN ev.content
    THEN [exc |-> "KeyError", invite |-> FALSE]
    ELSE IF ev.content.membership # Membership_INVITE
    THEN [exc |-> "", invite |-> FALSE]
    ELSE IF ~ParseOk(Val(ev.state_key))
    THEN [exc |-> "SynapseError", invite |-> FALSE]
    ELSE [exc |-> "", invite |-> TRUE]

\* lines 118-125: what the handler does with the event after persisting it
InviteOutcome(ev) ==
    IF ev.type # EventTypes_Member
    THEN [exc |-> "", invite |-> FALSE]
    ELSE IF "membership" \notin DOMAIN ev.content
    THEN [exc |-> "KeyError", invite |-> FALSE]
    ELSE IF ev.content.membership # Membership_INVITE
    THEN [exc |-> "", invite |-> FALSE]
    ELSE IF ~ParseOk(Val(ev.state_key))
    THEN [exc |-> "SynapseError", invite |-> FALSE]
    ELSE [exc |-> "", invite |-> ~is_mine(parse_userid(Val(ev.state_key)))]

InviteCheck(p) ==
    /\ pc[p] = "invite_check"
    /\ LET out == InviteOutcome(event[p])
       IN  IF out.exc # ""
           THEN Fail(p, out.exc, "invite_check") /\ UNCHANGED trace
           ELSE /\ UNCHANGED error
                /\ IF out.invite
                   THEN /\ pc' = [pc EXCEPT ![p] = "send_invite"]
                        /\ Traced(p, Call("send_invite", event[p].event_id,
                               {parse_userid(Val(event[p].state_key)).domain}))
                   ELSE /\ pc' = [pc EXCEPT ![p] = "destinations"]
                        /\ UNCHANGED trace
    /\ UNCHANGED <<root, cacheOp, receiptVars, storeVars, next_event_id, notified, procs, builder,
                   latest_ret, event, context, args, destinations, storeLog>>

\* lines 126-128: the signatures of the returned invite are merged in
SendInviteReturn(p) ==
    /\ pc[p] = "send_invite"
    /\ event' = [event EXCEPT ![p].signatures =
           DictUpdate(@, returned_invite_signatures(event[p],
                            parse_userid(Val(event[p].state_key)).domain))]
    /\ pc' = [pc EXCEPT ![p] = "destinations"]
    /\ UNCHANGED <<root, cacheOp, receiptVars, storeVars, next_event_id, notified, trace, procs,
                   builder, latest_ret, context, args, error, destinations,
                   storeLog>>

\* mutant of DestLoop: the membership value is not looked at, every member
\* entry contributes its domain
DestLoopAnyMembership(current_state, keys, dests) ==
    [exc |-> "",
     destinations |-> dests \cup
         {parse_userid(Val(current_state[k].state_key)).domain :
             k \in {x \in keys : x[1] = EventTypes_Member
                                  /\ ParseOk(Val(current_state[x].state_key))}}]

\* lines 131-141: only SynapseError is caught; a missing "membership" raises
\* KeyError out of the loop
RECURSIVE DestLoop(_, _, _)
DestLoop(current_state, keys, dests) ==
    IF keys = {} THEN [exc |-> "", destinations |-> dests]
    ELSE LET k == CHOOSE x \in keys : TRUE
             s == current_state[k]
         IN  IF k[1] # EventTypes_Member
             THEN DestLoop(current_state, keys \ {k}, dests)
             ELSE IF "membership" \notin DOMAIN s.content
             THEN [exc |-> "KeyError", destinations |-> dests]
             ELSE IF s.content.membership # Membership_JOIN
             THEN DestLoop(current_state, keys \ {k}, dests)
             ELSE IF ~ParseOk(Val(s.state_key))
             THEN DestLoop(current_state, keys \ {k}, dests)
             ELSE DestLoop(current_state, keys \ {k},
                      dests \cup {parse_userid(Val(s.state_key)).domain})

\* mutant of ComputeDestinations: a context without state is treated as one
\* with empty state
ComputeDestinationsNoneAsEmpty(extra_destinations, current_state) ==
    IF current_state = None
    THEN [exc |-> "", destinations |-> extra_destinations]
    ELSE DestLoop(Val(current_state), DOMAIN Val(current_state),
                  extra_destinations)

\* lines 130-141: context.current_state.items() of a context without state
\* raises AttributeError
ComputeDestinations(extra_destinations, current_state) ==
    IF current_state = None
    THEN [exc |-> "AttributeError", destinations |-> {}]
    ELSE DestLoop(Val(current_state), DOMAIN Val(current_state),
                  extra_destinations)

\* lines 130-143: compute the destinations, then notify local subscribers
Notify(p) ==
    /\ pc[p] = "destinations"
    /\ LET out == ComputeDestinations(args[p].extra_destinations,
                                      context[p].current_state)
       IN  IF out.exc # ""
           THEN Fail(p, out.exc, "destinations")
                /\ UNCHANGED <<trace, destinations, notified>>
           ELSE /\ destinations' = [destinations EXCEPT ![p] = out.destinations]
                /\ Traced(p, Call("on_new_room_event", event[p].event_id, {}))
                /\ notified' = notified \cup {event[p].event_id}
                /\ pc' = [pc EXCEPT ![p] = "fanout"]
                /\ UNCHANGED error
    /\ UNCHANGED <<root, cacheOp, receiptVars, storeVars, next_event_id, procs, builder,
                   latest_ret, event, context, args, storeLog>>

\* lines 145-149
Fanout(p) ==
    /\ pc[p] = "fanout"
    /\ Traced(p, Call("handle_new_event", event[p].event_id, destinations[p]))
    /\ pc' = [pc EXCEPT ![p] = "done"]
    /\ UNCHANGED <<root, cacheOp, receiptVars, storeVars, next_event_id, notified, procs, builder,
                   latest_ret, event, context, args, error, destinations,
                   storeLog>>

(***************************************************************************)
(* Specifications.                                                         *)
(***************************************************************************)
(***************************************************************************)
(* ReceiptsHandler (synapse/handlers/receipts.py).  A receipt is the dict   *)
(* the handler builds; event_ids is a list.                                *)
(***************************************************************************)
MaxStreamId == 3

OtherRoomId == "!other"
ReceiptType == "m.read"
ReceiptRooms == {RoomId, OtherRoomId}
ReceiptUsers == {UserA, UserLocal}
ReceiptEventIds == {1, 2}
Timestamps == {10, 20}

Receipt(room_id, receipt_type, user_id, event_ids, data) ==
    [room_id |-> room_id, receipt_type |-> receipt_type, user_id |-> user_id,
     event_ids |-> event_ids, data |-> data]

ReceiptKey(receipt) ==
    <<receipt.room_id, receipt.receipt_type, receipt.user_id>>

\* the value of content[room_id][receipt_type][user_id] in an m.receipt EDU
UserValues(event_ids, ts) == [event_ids |-> event_ids, data |-> [ts |-> ts]]
UserValuesNoData(event_ids) == [event_ids |-> event_ids]

EduContent(room_id, users) ==
    [r \in {room_id} |-> [t \in {ReceiptType} |-> users]]

\* the m.receipt contents a remote server may send
EduContents ==
    { EmptyDict,
      EduContent(RoomId, [u \in {UserA} |-> UserValues(<<1>>, 10)]),
      EduContent(RoomId, [u \in {UserA} |-> UserValuesNoData(<<2>>)]),
      EduContent(RoomId, [u \in {UserA, UserLocal} |->
                             IF u = UserA THEN UserValues(<<1, 2>>, 20)
                             ELSE UserValues(<<1>>, 20)]),
      [r \in ReceiptRooms |-> [t \in {ReceiptType} |->
          [u \in {UserA} |-> UserValues(<<2>>, 20)]]] }

\* lines 67-78: one receipt per (room, receipt type, user) of the content
ContentReceipts(content) ==
    UNION { UNION { { Receipt(room_id, receipt_type, user_id,
                          content[room_id][receipt_type][user_id].event_ids,
                          IF "data" \in DOMAIN
                                 content[room_id][receipt_type][user_id]
                          THEN content[room_id][receipt_type][user_id].data
                          ELSE EmptyDict) :
                      user_id \in DOMAIN content[room_id][receipt_type] } :
                    receipt_type \in DOMAIN content[room_id] } :
            room_id \in DOMAIN content }

\* the orders in which the items() of the dicts may come
Orderings(S) ==
    {q \in [1..Cardinality(S) -> S] : Range(q) = S}

\* store.insert_receipt, the decision: a receipt is new unless every event it
\* names is already recorded for its (room, receipt type, user)
IsNewReceipt(stored, receipt) ==
    LET key == ReceiptKey(receipt)
        recorded == IF key \in DOMAIN stored THEN stored[key].event_ids ELSE {}
    IN  ~(Range(receipt.event_ids) \subseteq recorded)

\* store.insert_receipt, the write: the receipt is recorded at the next stream
\* position
InsertedReceipt(stored, stream_id, receipt) ==
    LET key == ReceiptKey(receipt)
        recorded == IF key \in DOMAIN stored THEN stored[key].event_ids ELSE {}
    IN  DictPut(stored, key,
            [event_ids |-> recorded \cup Range(receipt.event_ids),
             data |-> receipt.data, stream_id |-> stream_id + 1])

\* rm_handler.fetch_room_distributions_into: the remote servers of a room
RoomRemoteDomains(room_id) ==
    IF room_id = RoomId THEN {<<"h1">>, <<"h2">>} ELSE {}

RECURSIVE SetToSeq(_)
SetToSeq(S) ==
    IF S = {} THEN << >>
    ELSE LET x == CHOOSE y \in S : TRUE
         IN  <<x>> \o SetToSeq(S \ {x})

\* a collaborator call of the receipts handler; arg holds the stream id that
\* insert_receipt returned (nothing for a receipt that is not new), the stream
\* id given to on_new_event, the destination of send_edu
RCall(op, receipt, arg) == [op |-> op, receipt |-> receipt, arg |-> arg]

NoReceiptCall == [entry |-> "", receipts |-> << >>, is_new |-> None]

ReceiptsInit ==
    /\ receipts = EmptyDict
    /\ receipt_stream_id = 0
    /\ rpc = "idle"
    /\ rcall = NoReceiptCall
    /\ rtrace = << >>
    /\ receiptLog = {}

\* received_client_receipt, lines 43-59: the receipt is built and handed to
\* _handle_new_receipts
ReceivedClientReceipt(room_id, receipt_type, user_id, event_id, ts) ==
    /\ rpc \in {"idle", "done"}
    /\ receipt_stream_id < MaxStreamId
    /\ rcall' = [entry |-> "client",
                 receipts |-> <<Receipt(room_id, receipt_type, user_id,
                                        <<event_id>>, [ts |-> ts])>>,
                 is_new |-> None]
    /\ rtrace' = << >>
    /\ rpc' = "insert"
    /\ UNCHANGED <<root, cacheOp, storeVars, procVars, next_event_id, notified,
                   procs, storeLog, receipts, receipt_stream_id, receiptLog>>

\* _received_remote_receipt, lines 65-80
ReceivedRemoteReceipt(content, order) ==
    /\ rpc \in {"idle", "done"}
    /\ receipt_stream_id < MaxStreamId
    /\ rcall' = [entry |-> "remote", receipts |-> order, is_new |-> None]
    /\ rtrace' = << >>
    /\ rpc' = "insert"
    /\ UNCHANGED <<root, cacheOp, storeVars, procVars, next_event_id, notified,
                   procs, storeLog, receipts, receipt_stream_id, receiptLog>>

\* mutant of AfterHandle: received_client_receipt pushes the receipt to the
\* remote servers whatever _handle_new_receipts returned
AfterHandlePushAlways(entry, is_new) ==
    IF entry = "client" THEN "push" ELSE "done"

\* where the caller of _handle_new_receipts goes on: received_client_receipt
\* pushes a new receipt to the remote servers (lines 61-63), the EDU handler
\* is finished
AfterHandle(entry, is_new) ==
    IF entry = "client" /\ is_new = Some(TRUE) THEN "push" ELSE "done"

\* what identifies a receipt: room, receipt type, user and event ids
Submission(receipt) == <<ReceiptKey(receipt), receipt.event_ids>>

\* mutant of HandleResult: the call always ends with True
HandleResultAlwaysNew(res) == Some(TRUE)

\* lines 94-96 and 106: False when insert_receipt gave nothing, else True
HandleResult(res) == Some(res)

\* _handle_new_receipts, lines 82-97: the first receipt of the list is given
\* to store.insert_receipt; a receipt that is not new ends the call with
\* False, an empty list ends it with None
InsertReceipt ==
    /\ rpc = "insert"
    /\ IF rcall.receipts = << >>
       THEN /\ rpc' = AfterHandle(rcall.entry, None)
            /\ UNCHANGED <<receipts, receipt_stream_id, rcall, rtrace,
                           receiptLog>>
       ELSE LET receipt == rcall.receipts[1]
            IN  /\ rtrace' = Append(rtrace,
                       RCall("insert_receipt", receipt,
                             IF IsNewReceipt(receipts, receipt)
                             THEN {receipt_stream_id + 1} ELSE {}))
                /\ receiptLog' = receiptLog \cup {Submission(receipt)}
                /\ IF IsNewReceipt(receipts, receipt)
                   THEN /\ receipts' = InsertedReceipt(receipts,
                                           receipt_stream_id, receipt)
                        /\ receipt_stream_id' = receipt_stream_id + 1
                        /\ rpc' = "notify"
                        /\ UNCHANGED rcall
                   ELSE /\ rcall' = [rcall EXCEPT !.is_new = HandleResult(FALSE)]
                        /\ rpc' = AfterHandle(rcall.entry, HandleResult(FALSE))
                        /\ UNCHANGED <<receipts, receipt_stream_id>>
    /\ UNCHANGED <<root, cacheOp, storeVars, procVars, next_event_id, notified,
                   procs, storeLog>>

\* _handle_new_receipts, lines 99-106: the notifier is told the greatest
\* persisted stream id for the room, and the call ends with True
NotifyReceipt ==
    /\ rpc = "notify"
    /\ rtrace' = Append(rtrace, RCall("on_new_event", rcall.receipts[1],
                                      {receipt_stream_id}))
    /\ rcall' = [rcall EXCEPT !.is_new = HandleResult(TRUE)]
    /\ rpc' = AfterHandle(rcall.entry, HandleResult(TRUE))
    /\ UNCHANGED <<root, cacheOp, storeVars, procVars, next_event_id, notified,
                   procs, storeLog, receipts, receipt_stream_id, receiptLog>>

\* _push_remotes, lines 108-141: one m.receipt EDU per remote server of the
\* receipt's room
RECURSIVE PushRemotes(_, _)
PushRemotes(receipt_list, sent) ==
    IF receipt_list = << >> THEN sent
    ELSE LET receipt == Head(receipt_list)
             remotedomains == SetToSeq(RoomRemoteDomains(receipt.room_id))
         IN  PushRemotes(Tail(receipt_list),
                 sent \o [i \in 1..Len(remotedomains) |->
                            RCall("send_edu", receipt, {remotedomains[i]})])

Push ==
    /\ rpc = "push"
    /\ rtrace' = PushRemotes(rcall.receipts, rtrace)
    /\ rpc' = "done"
    /\ UNCHANGED <<root, cacheOp, storeVars, procVars, next_event_id, notified,
                   procs, storeLog, receipts, receipt_stream_id, rcall,
                   receiptLog>>

ReceiptsNext ==
    \/ \E room_id \in ReceiptRooms, user_id \in ReceiptUsers,
          event_id \in ReceiptEventIds, ts \in Timestamps :
          ReceivedClientReceipt(room_id, ReceiptType, user_id, event_id, ts)
    \/ \E content \in EduContents :
          \E order \in Orderings(ContentReceipts(content)) :
              ReceivedRemoteReceipt(content, order)
    \/ InsertReceipt
    \/ NotifyReceipt
    \/ Push

\* the handler invocations P, none started, on an empty room
PipelineInit(P) ==
    /\ events = EmptyDict
    /\ forward_extremities = {}
    /\ state_groups = EmptyBag
    /\ state_groups_state = EmptyBag
    /\ event_to_state_groups = EmptyBag
    /\ state_groups_id_gen = 0
    /\ next_event_id = 1
    /\ notified = {}
    /\ procs = P
    /\ pc = [p \in P |-> "idle"]
    /\ builder = [p \in P |-> NoBuilder]
    /\ latest_ret = [p \in P |-> << >>]
    /\ event = [p \in P |-> NoEvent]
    /\ context = [p \in P |-> EventContext]
    /\ args = [p \in P |-> NoArgs]
    /\ error = [p \in P |-> NoError]
    /\ destinations = [p \in P |-> {}]
    /\ trace = [p \in P |-> << >>]
    /\ storeLog = << >>

Init ==
    /\ CacheInit
    /\ ReceiptsInit
    /\ PipelineInit({1})

Next ==
    \/ \E p \in procs, b \in Builders : Create(p, b)
    \/ \E p \in procs : GetLatest(p)
    \/ \E p \in procs : Annotate(p)
    \/ \E p \in procs : Build(p)
    \/ \E p \in procs, x \in ExtraDestinationChoices, s \in BOOLEAN :
          \E ctx \in {context[p], EventContext} : Handle(p, x, s, ctx)
    \/ \E p \in procs, allowed \in BOOLEAN : AuthCheck(p, allowed)
    \/ \E p \in procs, ok \in BOOLEAN : PersistEvent(p, ok)
    \/ \E p \in procs : InviteCheck(p)
    \/ \E p \in procs : SendInviteReturn(p)
    \/ \E p \in procs : Notify(p)
    \/ \E p \in procs : Fanout(p)

Spec == Init /\ [][Next]_vars

(***************************************************************************)
(* Two invocations of the handler run interleaved on the same room: every  *)
(* step between two yields of one invocation may be followed by a step of  *)
(* the other.                                                              *)
(***************************************************************************)
ConcBuilders ==
    {b \in Builders :
        \/ b.type = EventTypes_Message
        \/ b.type = EventTypes_Member /\ b.state_key = Some(UserA)
                                      /\ b.content = [membership |-> Membership_JOIN]}

InitConc ==
    /\ CacheInit
    /\ ReceiptsInit
    /\ PipelineInit({1, 2})

NextConc ==
    \/ \E p \in procs, b \in ConcBuilders : Create(p, b)
    \/ \E p \in procs : GetLatest(p)
    \/ \E p \in procs : Annotate(p)
    \/ \E p \in procs : Build(p)
    \/ \E p \in procs : Handle(p, {}, FALSE, context[p])
    \/ \E p \in procs : AuthCheck(p, TRUE)
    \/ \E p \in procs : PersistEvent(p, TRUE)
    \/ \E p \in procs : InviteCheck(p)
    \/ \E p \in procs : Notify(p)
    \/ \E p \in procs : Fanout(p)

SpecConc == InitConc /\ [][NextConc]_vars

(***************************************************************************)
(* StateStore driven directly: storeState(event, context) for events and   *)
(* contexts drawn from small sets.                                         *)
(***************************************************************************)
MaxStoreCalls == 3

MkEvent(id, type, state_key, content) ==
    [event_id |-> id, room_id |-> RoomId, type |-> type,
     state_key |-> state_key, content |-> content, prev_events |-> << >>,
     depth |-> 1, signatures |-> OwnSignature]

TopicEvent == MkEvent(1, EventTypes_Topic, Some(<< >>), [topic |-> "t"])
JoinEvent ==
    MkEvent(2, EventTypes_Member, Some(UserA), [membership |-> Membership_JOIN])
MessageEvent == MkEvent(3, EventTypes_Message, None, [body |-> "hi"])

StoreEvents == {JoinEvent, MessageEvent}

LeaveEvent ==
    MkEvent(4, EventTypes_Member, Some(UserA), [membership |-> Membership_LEAVE])

StoreContexts ==
    {[current_state |-> cs, state_group |-> g] :
        cs \in {None, Some(EmptyDict),
                Some([k \in {StateKeyOf(TopicEvent)} |-> TopicEvent]),
                Some(StateDict({TopicEvent, LeaveEvent}))},
        g \in 0..state_groups_id_gen}

StoreState(ev, ctx) ==
    /\ Len(storeLog) < MaxStoreCalls
    /\ LET db == store_state_groups_txn(DB, ev, ctx)
       IN  /\ state_groups' = db.state_groups
           /\ state_groups_state' = db.state_groups_state
           /\ event_to_state_groups' = db.event_to_state_groups
           /\ state_groups_id_gen' = db.state_groups_id_gen
    /\ storeLog' = Append(storeLog, <<ev, ctx>>)
    /\ UNCHANGED <<root, cacheOp, receiptVars, events, forward_extremities, next_event_id,
                   notified, procs, procVars>>

StoreNext == \E ev \in StoreEvents, ctx \in StoreContexts : StoreState(ev, ctx)

SpecStore == Init /\ [][StoreNext]_vars

CacheNext ==
    \/ \E key \in FullKeys, value \in CacheVals : CacheSet(key, value)
    \/ \E key \in FullKeys : CacheGet(key)
    \/ \E key \in FullKeys \cup StrictPrefixes : CachePop(key)

SpecCache == Init /\ [][CacheNext]_vars

SpecReceipts == Init /\ [][ReceiptsNext]_vars

(***************************************************************************)
(* Properties.                                                             *)
(***************************************************************************)
HasCall(p, op, event_id) ==
    \E i \in DOMAIN trace[p] :
        trace[p][i].op = op /\ trace[p][i].event_id = event_id

CallBefore(p, op, i) ==
    \E j \in 1..(i - 1) :
        trace[p][j].op = op /\ trace[p][j].event_id = trace[p][i].event_id

RowsOf(table, event_id) == {r \in BagToSet(table) : r.event_id = event_id}

\* C1: in every invocation of handle_new_client_event, persist_event has
\* completed for the event before on_new_room_event is invoked for it, and
\* on_new_room_event has been invoked before handle_new_event is; neither is
\* ever invoked for an event that is not in the events table.
C1_PersistThenNotifyThenFanout ==
    \A p \in procs : \A i \in DOMAIN trace[p] :
        /\ trace[p][i].op = "on_new_room_event" =>
               /\ CallBefore(p, "persist_event", i)
               /\ trace[p][i].event_id \in DOMAIN events
        /\ trace[p][i].op = "handle_new_event" =>
               /\ CallBefore(p, "on_new_room_event", i)
               /\ trace[p][i].event_id \in DOMAIN events

C1_Witness ==
    \E p \in procs :
        /\ pc[p] = "done"
        /\ Len(trace[p]) >= 3
        /\ trace[p][1].op = "persist_event"
        /\ trace[p][Len(trace[p])].op = "handle_new_event"

\* C2: a created event has depth 1 + the greatest depth of the forward
\* extremities used as its parents, and depth 1 when there are none.
C2_DepthIsOnePlusMaxParentDepth ==
    \A p \in procs :
        event[p] # NoEvent =>
            event[p].depth =
                IF Len(event[p].prev_events) = 0 THEN 1
                ELSE 1 + MaxOf({events[event[p].prev_events[i][1]].depth :
                                   i \in DOMAIN event[p].prev_events})

\* C3: the prev_events of a created event are exactly the (event_id, hash)
\* pairs of the forward extremities returned by get_latest_events_in_room, one
\* per extremity, and empty when the room has none.
C3_PrevEventsAreTheExtremities ==
    \A p \in procs :
        event[p] # NoEvent =>
            /\ Len(event[p].prev_events) = Len(latest_ret[p])
            /\ \A i \in DOMAIN latest_ret[p] :
                   /\ event[p].prev_events[i][1] = latest_ret[p][i][1]
                   /\ event[p].prev_events[i][2] = latest_ret[p][i][2]
            /\ pc[p] \in {"created", "auth_check", "persist"} =>
                   /\ {event[p].prev_events[i][1] :
                          i \in DOMAIN event[p].prev_events} = forward_extremities
                   /\ Len(event[p].prev_events) = Cardinality(forward_extremities)
                   /\ \A i \in DOMAIN event[p].prev_events :
                          event[p].prev_events[i][2] =
                              HashOf(event[p].prev_events[i][1])

C3_Witness ==
    \E p \in procs :
        /\ pc[p] = "created"
        /\ Len(event[p].prev_events) = 1
        /\ event[p].prev_events[1][1] \in forward_extremities

\* the joined members of a state whose user id has a domain
JoinedDomains(current_state) ==
    {parse_userid(Val(current_state[k].state_key)).domain :
        k \in {x \in DOMAIN current_state :
                 /\ x[1] = EventTypes_Member
                 /\ "membership" \in DOMAIN current_state[x].content
                 /\ current_state[x].content.membership = Membership_JOIN
                 /\ ParseOk(Val(current_state[x].state_key))}}

\* C4: the destinations handed to handle_new_event are exactly the extra
\* destinations and the domains of the users whose membership entry in
\* context.current_state is "join".
C4_DestinationsAreExtraAndJoined ==
    \A p \in procs : \A i \in DOMAIN trace[p] :
        trace[p][i].op = "handle_new_event" =>
            /\ context[p].current_state # None
            /\ trace[p][i].arg = args[p].extra_destinations
                                   \cup JoinedDomains(Val(context[p].current_state))

C4_Witness ==
    \E p \in procs :
        /\ pc[p] = "done"
        /\ HasCall(p, "handle_new_event", event[p].event_id)
        /\ destinations[p] = {<<"h9">>, <<"h1">>}
        /\ \E k \in DOMAIN Val(context[p].current_state) :
               /\ k[1] = EventTypes_Member
               /\ "membership" \in DOMAIN Val(context[p].current_state)[k].content
               /\ Val(context[p].current_state)[k].content.membership
                      = Membership_INVITE

\* the membership entries of a state that are malformed: the user id does not
\* parse, or the content has no membership field
MalformedEntries(current_state) ==
    {k \in DOMAIN current_state :
        /\ k[1] = EventTypes_Member
        /\ \/ "membership" \notin DOMAIN current_state[k].content
           \/ ~ParseOk(Val(current_state[k].state_key))}

\* C5: with exactly one malformed membership entry in context.current_state
\* the handler does not fail while computing the destinations, and the domains
\* of the valid joined entries are all among the destinations.
C5_OneMalformedEntryIsSkipped ==
    \A p \in procs :
        ( /\ context[p].current_state # None
          /\ Cardinality(MalformedEntries(Val(context[p].current_state))) = 1 )
        => /\ ~(pc[p] = "failed" /\ error[p].at = "destinations")
           /\ pc[p] \in {"fanout", "done"} =>
                  JoinedDomains(Val(context[p].current_state)) \subseteq destinations[p]

\* C6: every event handed to the local notifier has an event -> state group
\* link, and get_state_groups finds a group for it.
C6_NotifiedEventHasStateGroup ==
    \A e \in notified :
        /\ RowsOf(event_to_state_groups, e) # {}
        /\ DOMAIN get_state_groups(DB, events, {e}) # {}

C6_Witness ==
    /\ notified # {}
    /\ \E e \in DOMAIN events : RowsOf(event_to_state_groups, e) = {}

\* C7: when the authorization check rejects the event, the handler fails with
\* that error, has called no collaborator, and the event is in no table.
C7_AuthRejectionAbortsBeforePersist ==
    \A p \in procs :
        args[p].auth = "rejected" =>
            /\ ~args[p].suppress_auth
            /\ pc[p] = "failed"
            /\ error[p].exc = "AuthError"
            /\ trace[p] = << >>
            /\ event[p].event_id \notin DOMAIN events
            /\ event[p].event_id \notin forward_extremities
            /\ event[p].event_id \notin notified
            /\ RowsOf(state_groups, event[p].event_id) = {}
            /\ RowsOf(state_groups_state, event[p].event_id) = {}
            /\ RowsOf(event_to_state_groups, event[p].event_id) = {}

C7_Witness ==
    \E p \in procs :
        /\ args[p].auth = "rejected"
        /\ DOMAIN events # {}
        /\ forward_extremities # {}

\* C8: after pop(prefix) with a strict prefix, get returns None for every key
\* that starts with the prefix and what it returned before for every other key.
C8_PrefixPopRemovesTheBranchOnly ==
    [][ (cacheOp'.op = "pop" /\ cacheOp'.key \in StrictPrefixes) =>
            \A k \in FullKeys :
                IF IsPrefix(cacheOp'.key, k)
                THEN TreeGet(root', k) = None
                ELSE TreeGet(root', k) = TreeGet(root, k) ]_vars

C8_Witness ==
    /\ cacheOp.op = "pop"
    /\ cacheOp.key \in StrictPrefixes
    /\ cacheOp.ret # None
    /\ \E k \in FullKeys : TreeGet(root, k) # None

\* C9: pop of a full key returns the key's value and removes that entry only;
\* popping the key again, or a key that is not set, returns None and changes
\* nothing.
C9_FullKeyPopRemovesOneEntry ==
    [][ (cacheOp'.op = "pop" /\ cacheOp'.key \in FullKeys) =>
            /\ cacheOp'.ret = TreeGet(root, cacheOp'.key)
            /\ TreeGet(root', cacheOp'.key) = None
            /\ \A k \in FullKeys \ {cacheOp'.key} :
                   TreeGet(root', k) = TreeGet(root, k)
            /\ TreeGet(root, cacheOp'.key) = None => root' = root
            /\ TreePopped(root', cacheOp'.key) = None
            /\ TreePop(root', cacheOp'.key) = root' ]_vars

C9_Witness ==
    /\ cacheOp.op = "pop"
    /\ cacheOp.key \in FullKeys
    /\ cacheOp.ret # None
    /\ \E k \in FullKeys :
           /\ k # cacheOp.key
           /\ k[1] = cacheOp.key[1]
           /\ TreeGet(root, k) # None

\* C10: calling storeState a second time with the same event and context
\* leaves state_groups, state_groups_state and event_to_state_groups as the
\* first call left them.
C10_StoreStateIsIdempotent ==
    [][ ( /\ Len(storeLog') = Len(storeLog) + 1
          /\ Len(storeLog) >= 1
          /\ storeLog'[Len(storeLog')] = storeLog[Len(storeLog)] )
        => UNCHANGED <<state_groups, state_groups_state,
                       event_to_state_groups>> ]_vars


(***************************************************************************)
(* Properties of the state store.                                          *)
(***************************************************************************)
GroupIds(sg, sgs) ==
    {r.id : r \in BagToSet(sg)} \cup {r.state_group : r \in BagToSet(sgs)}

IsStoreCall == Len(storeLog') = Len(storeLog) + 1
CallEvent == storeLog'[Len(storeLog')][1]
CallContext == storeLog'[Len(storeLog')][2]
LastEvent == storeLog[Len(storeLog)][1]
LastContext == storeLog[Len(storeLog)][2]

\* C11: a state group is never changed once written: over any sequence of
\* storeState calls the state_groups and state_groups_state rows of every
\* group id that existed before a call are the same after it; and a call whose
\* context carries a state but no state_group writes its group under an id
\* that did not exist before the call.
C11_StateGroupsAreImmutable ==
    [][ LET old == GroupIds(state_groups, state_groups_state)
        IN  /\ \A r \in BagToSet(state_groups) \cup BagToSet(state_groups') :
                   r.id \in old =>
                       CopiesIn(r, state_groups') = CopiesIn(r, state_groups)
            /\ \A r \in BagToSet(state_groups_state)
                          \cup BagToSet(state_groups_state') :
                   r.state_group \in old =>
                       CopiesIn(r, state_groups_state')
                           = CopiesIn(r, state_groups_state)
            /\ ( /\ IsStoreCall
                 /\ CallContext.current_state # None
                 /\ CallContext.state_group = 0 )
               => \E r \in BagToSet(state_groups') :
                      /\ r.id \notin old
                      /\ r.event_id = CallEvent.event_id ]_vars

C11_Witness ==
    /\ Len(storeLog) >= 2
    /\ LastContext.current_state # None
    /\ LastContext.state_group = 0
    /\ Cardinality(GroupIds(state_groups, state_groups_state)) >= 2
    /\ \E r \in BagToSet(state_groups_state) : r.state_group = 1

\* C12: a storeState call whose context has a current_state and no
\* state_group creates one new group whose state_groups_state entries are
\* exactly the context's current_state with, when the event is a state event,
\* the entry of the event's (type, state_key) inserted or replaced by the
\* event itself; the group's state_groups row carries the event's room_id and
\* the event as anchor, and the event is linked to the group.
C12_NewGroupHoldsContextStatePlusEvent ==
    [][ ( /\ IsStoreCall
          /\ CallContext.current_state # None
          /\ CallContext.state_group = 0 )
        => LET ev == CallEvent
               cs == Val(CallContext.current_state)
               old == GroupIds(state_groups, state_groups_state)
               keys == DOMAIN cs
                         \cup (IF is_state(ev) THEN {StateKeyOf(ev)} ELSE {})
               Entry(k) == IF is_state(ev) /\ k = StateKeyOf(ev)
                           THEN ev.event_id ELSE cs[k].event_id
           IN  \E g \in {r.id : r \in BagToSet(state_groups')} \ old :
                   /\ {r \in BagToSet(state_groups') : r.id \notin old}
                          = {[id |-> g, room_id |-> ev.room_id,
                              event_id |-> ev.event_id]}
                   /\ CopiesIn([id |-> g, room_id |-> ev.room_id,
                                event_id |-> ev.event_id], state_groups') = 1
                   /\ {r \in BagToSet(state_groups_state') :
                           r.state_group \notin old}
                          = {[state_group |-> g, room_id |-> RoomId,
                              type |-> k[1], state_key |-> k[2],
                              event_id |-> Entry(k)] : k \in keys}
                   /\ \A r \in BagToSet(state_groups_state') :
                          r.state_group = g =>
                              CopiesIn(r, state_groups_state') = 1
                   /\ CopiesIn([state_group |-> g, event_id |-> ev.event_id],
                               event_to_state_groups')
                        = CopiesIn([state_group |-> g,
                                    event_id |-> ev.event_id],
                                   event_to_state_groups) + 1 ]_vars

C12_Witness ==
    /\ Len(storeLog) >= 1
    /\ LastEvent = JoinEvent
    /\ LastContext.state_group = 0
    /\ LastContext.current_state = Some(StateDict({TopicEvent, LeaveEvent}))
    /\ \E r \in BagToSet(state_groups_state) :
           /\ r.state_group = state_groups_id_gen
           /\ r.type = EventTypes_Member
           /\ r.event_id = JoinEvent.event_id
    /\ \E r \in BagToSet(state_groups_state) :
           /\ r.state_group = state_groups_id_gen
           /\ r.event_id = TopicEvent.event_id

\* C13: a storeState call whose context carries a state_group writes exactly
\* one row, the event_to_state_groups link of the event to that group, and no
\* state_groups or state_groups_state row; a call whose context has no
\* current_state writes nothing.
C13_InheritedGroupOnlyLinks ==
    [][ IsStoreCall =>
          /\ ( /\ CallContext.current_state # None
               /\ CallContext.state_group # 0 )
             => /\ UNCHANGED <<state_groups, state_groups_state,
                               state_groups_id_gen>>
                /\ event_to_state_groups'
                     = event_to_state_groups
                         (+) SetToBag({[state_group |-> CallContext.state_group,
                                        event_id |-> CallEvent.event_id]})
          /\ CallContext.current_state = None
             => UNCHANGED <<state_groups, state_groups_state,
                            event_to_state_groups, state_groups_id_gen>> ]_vars

C13_Witness ==
    /\ Len(storeLog) >= 2
    /\ LastContext.current_state # None
    /\ LastContext.state_group # 0
    /\ LastEvent = JoinEvent
    /\ CopiesIn([state_group |-> LastContext.state_group,
                 event_id |-> JoinEvent.event_id], event_to_state_groups) >= 1
    /\ BagCardinality(state_groups) = 1

\* C19: a storeState call whose state has an entry that references an event
\* absent from the events table fails and writes nothing.
C19_OrphanStateReferenceWritesNothing ==
    [][ ( /\ IsStoreCall
          /\ CallContext.current_state # None
          /\ \E k \in DOMAIN Val(CallContext.current_state) :
                 Val(CallContext.current_state)[k].event_id \notin DOMAIN events )
        => UNCHANGED <<state_groups, state_groups_state,
                       event_to_state_groups, state_groups_id_gen>> ]_vars


\* C14: for any set of event ids get_state_groups returns a mapping whose keys
\* are exactly the distinct state groups linked to those ids, each mapped to
\* all the state events stored for the group; ids without a link contribute
\* nothing and ids linked to the same group give one entry.
C14_GroupsOfEventsWithFullState ==
    \A event_ids \in SUBSET (1..(MaxEvents + 1)) :
        LET res == get_state_groups(DB, events, event_ids)
            linked == {r.state_group : r \in
                         {x \in BagToSet(event_to_state_groups) :
                             x.event_id \in event_ids}}
        IN  /\ DOMAIN res = linked
            /\ \A g \in linked :
                   /\ {e.event_id : e \in res[g]}
                        = {r.event_id : r \in
                             {x \in BagToSet(state_groups_state) :
                                 x.state_group = g}}
                   /\ \A e \in res[g] : e = events[e.event_id]

C14_Witness ==
    \E e1 \in DOMAIN events, e2 \in DOMAIN events, e3 \in 1..(MaxEvents + 1) :
        /\ e1 # e2
        /\ RowsOf(event_to_state_groups, e1) # {}
        /\ {r.state_group : r \in RowsOf(event_to_state_groups, e1)}
             = {r.state_group : r \in RowsOf(event_to_state_groups, e2)}
        /\ RowsOf(event_to_state_groups, e3) = {}
        /\ LET res == get_state_groups(DB, events, {e1, e2, e3})
           IN  /\ Cardinality(DOMAIN res) = 1
               /\ \A g \in DOMAIN res : res[g] # {}


\* C15: _create_new_client_event only reads storage: no step of it, from its
\* start to the built event, changes the events table, the forward
\* extremities or the state group tables.
C15_CreateIsReadOnly ==
    [][ (\E p \in procs :
            /\ pc'[p] # pc[p]
            /\ pc'[p] \in {"get_latest", "annotate", "build", "created"})
        => UNCHANGED storeVars ]_vars

C15_Witness ==
    \E p \in procs :
        /\ pc[p] = "created"
        /\ Len(event[p].prev_events) >= 1
        /\ context[p].current_state # None
        /\ DOMAIN Val(context[p].current_state) # {}
        /\ event[p].event_id \notin DOMAIN events
        /\ BagCardinality(state_groups) >= 1


\* the event is a membership "join" of a user of another server
IsRemoteJoin(e) ==
    /\ e.type = EventTypes_Member
    /\ "membership" \in DOMAIN e.content
    /\ e.content.membership = Membership_JOIN
    /\ ParseOk(Val(e.state_key))
    /\ ~is_mine(parse_userid(Val(e.state_key)))

\* the event was propagated with the single parent e2, a persisted join of a
\* remote user that was itself created on a single parent and whose state
\* group was stored
AfterPersistedRemoteJoin(p, e2) ==
    /\ event[p] # NoEvent
    /\ Len(event[p].prev_events) = 1
    /\ e2 = event[p].prev_events[1][1]
    /\ e2 \in DOMAIN events
    /\ IsRemoteJoin(events[e2])
    /\ Len(events[e2].prev_events) = 1
    /\ RowsOf(event_to_state_groups, e2) # {}

\* C17: when a join E2 of a remote user U, created on the single parent E1,
\* has been persisted with its state group, the next event created in the
\* room on the parent E2 and propagated by handle_new_client_event is handed
\* to the federation handler with U's domain among the destinations.
C17_JoinedDomainReachesNextEvent ==
    \A p \in procs : \A i \in DOMAIN trace[p] : \A e2 \in DOMAIN events :
        ( /\ trace[p][i].op = "handle_new_event"
          /\ AfterPersistedRemoteJoin(p, e2) )
        => parse_userid(Val(events[e2].state_key)).domain \in trace[p][i].arg

C17_Witness ==
    \E p \in procs : \E i \in DOMAIN trace[p] : \E e2 \in DOMAIN events :
        /\ trace[p][i].op = "handle_new_event"
        /\ trace[p][i].event_id = event[p].event_id
        /\ AfterPersistedRemoteJoin(p, e2)
        /\ parse_userid(Val(events[e2].state_key)).domain \in trace[p][i].arg


\* the event is a membership "invite" of a user of another server
IsRemoteInvite(e) ==
    /\ e.type = EventTypes_Member
    /\ "membership" \in DOMAIN e.content
    /\ e.content.membership = Membership_INVITE
    /\ ParseOk(Val(e.state_key))
    /\ ~is_mine(parse_userid(Val(e.state_key)))

SendInviteCalls(p) == {i \in DOMAIN trace[p] : trace[p][i].op = "send_invite"}

\* C20: handle_new_client_event requests the invite handshake (send_invite to
\* the invitee's domain) once when the event is a membership "invite" of a
\* user of another server and never for any other event; the request comes
\* after persist_event and before on_new_room_event and handle_new_event, and
\* the returned signatures are added to the event's signatures, the existing
\* ones staying.
C20_InviteHandshakeOnceForRemoteInvite ==
    \A p \in procs :
        event[p] # NoEvent =>
          LET invites == SendInviteCalls(p)
              due == IsRemoteInvite(event[p])
          IN  /\ Cardinality(invites) <= 1
              /\ invites # {} => due
              /\ ( /\ due
                   /\ HasCall(p, "persist_event", event[p].event_id)
                   /\ pc[p] # "invite_check" ) => Cardinality(invites) = 1
              /\ \A i \in invites :
                     /\ CallBefore(p, "persist_event", i)
                     /\ trace[p][i].event_id = event[p].event_id
                     /\ trace[p][i].arg
                          = {parse_userid(Val(event[p].state_key)).domain}
                     /\ \A j \in 1..(i - 1) :
                            trace[p][j].op \notin
                                {"on_new_room_event", "handle_new_event"}
              /\ \A j \in DOMAIN trace[p] :
                     ( /\ due
                       /\ trace[p][j].op \in
                              {"on_new_room_event", "handle_new_event"} )
                     => \E i \in invites : i < j
              /\ (invites # {} /\ pc[p] # "send_invite") =>
                     /\ \A d \in DOMAIN OwnSignature :
                            /\ d \in DOMAIN event[p].signatures
                            /\ event[p].signatures[d] = OwnSignature[d]
                     /\ parse_userid(Val(event[p].state_key)).domain
                            \in DOMAIN event[p].signatures

C20_Witness ==
    \E p \in procs :
        /\ pc[p] = "done"
        /\ IsRemoteInvite(event[p])
        /\ Cardinality(SendInviteCalls(p)) = 1
        /\ DOMAIN event[p].signatures = {server_name, <<"h2">>}
        /\ HasCall(p, "handle_new_event", event[p].event_id)


(***************************************************************************)
(* Properties of the receipts handler.                                     *)
(***************************************************************************)
\* C16: when a receipt with the room, receipt type, user and event ids of a
\* receipt submitted before is given to the receipts handler again,
\* _handle_new_receipts ends with False and without error, and the stored
\* receipts and the stream position are what they were.
C16_ResubmittedReceiptIsNotNew ==
    [][ ( /\ rpc = "insert"
          /\ rcall.receipts # << >>
          /\ Submission(rcall.receipts[1]) \in receiptLog )
        => /\ rcall'.is_new = Some(FALSE)
           /\ rpc' = "done"
           /\ receipts' = receipts
           /\ receipt_stream_id' = receipt_stream_id ]_vars

C16_Witness ==
    /\ rpc = "done"
    /\ rcall.is_new = Some(FALSE)
    /\ Len(rtrace) = 1
    /\ rtrace[1].op = "insert_receipt"
    /\ ReceiptKey(rcall.receipts[1]) \in DOMAIN receipts
    /\ receipts[ReceiptKey(rcall.receipts[1])].event_ids
         = Range(rcall.receipts[1].event_ids)
    /\ receipts[ReceiptKey(rcall.receipts[1])].data # rcall.receipts[1].data
    /\ receipt_stream_id = 1


ROps(k) == IF k \in DOMAIN rtrace THEN rtrace[k].op ELSE ""

\* C21: in received_client_receipt the receipt is first given to
\* store.insert_receipt, then the notifier is told the greatest persisted
\* stream id for the room, then one m.receipt EDU is sent to every remote
\* server of the room; when the store reports the receipt as not new there is
\* no notification, no EDU and no error.
C21_ClientReceiptPersistNotifyPush ==
    rcall.entry = "client" =>
        LET receipt == rcall.receipts[1]
            sends == {i \in DOMAIN rtrace : rtrace[i].op = "send_edu"}
        IN  /\ \A i \in DOMAIN rtrace :
                   /\ rtrace[i].receipt = receipt
                   /\ rtrace[i].op = "insert_receipt" => i = 1
                   /\ rtrace[i].op = "on_new_event" =>
                          /\ i = 2
                          /\ ROps(1) = "insert_receipt"
                          /\ rtrace[i].arg = {receipt_stream_id}
                          /\ receipts[ReceiptKey(receipt)].stream_id
                               = receipt_stream_id
                   /\ rtrace[i].op = "send_edu" =>
                          /\ i >= 3
                          /\ ROps(2) = "on_new_event"
                          /\ rcall.is_new = Some(TRUE)
            /\ rpc = "done" =>
                   /\ rcall.is_new \in {Some(TRUE), Some(FALSE)}
                   /\ rcall.is_new = Some(FALSE) =>
                          /\ Len(rtrace) = 1
                          /\ ROps(1) = "insert_receipt"
                   /\ rcall.is_new = Some(TRUE) =>
                          /\ ROps(2) = "on_new_event"
                          /\ Cardinality(sends)
                               = Cardinality(RoomRemoteDomains(receipt.room_id))
                          /\ {rtrace[i].arg : i \in sends}
                               = {{d} : d \in RoomRemoteDomains(receipt.room_id)}

C21_Witness ==
    /\ rcall.entry = "client"
    /\ rpc = "done"
    /\ rcall.is_new = Some(TRUE)
    /\ rcall.receipts[1].room_id = RoomId
    /\ Len(rtrace) = 4
    /\ ROps(1) = "insert_receipt"
    /\ ROps(2) = "on_new_event"
    /\ ROps(3) = "send_edu"
    /\ ROps(4) = "send_edu"
    /\ receipt_stream_id >= 2


\* C22: when _received_remote_receipt has finished an m.receipt EDU, every
\* receipt of its content has been given to store.insert_receipt, and for
\* every one that the store took as new the notifier has been told, whatever
\* happened to the receipts before it in the content.
C22_EveryReceiptOfEduIsSubmitted ==
    (rcall.entry = "remote" /\ rpc = "done") =>
        \A k \in DOMAIN rcall.receipts :
            \E i \in DOMAIN rtrace :
                /\ rtrace[i].op = "insert_receipt"
                /\ rtrace[i].receipt = rcall.receipts[k]
                /\ rtrace[i].arg # {} =>
                       \E j \in DOMAIN rtrace :
                           /\ j > i
                           /\ rtrace[j].op = "on_new_event"
                           /\ rtrace[j].receipt = rcall.receipts[k]


(***************************************************************************)
(* Properties of interleaved creations.                                    *)
(***************************************************************************)
\* nothing was persisted in the room since the invocation read the forward
\* extremities: every persisted event is a new extremity
ReadIsCurrent(p) == latest_ret[p] = get_latest_events_in_room

ParentIds(e) == {e.prev_events[i][1] : i \in DOMAIN e.prev_events}

\* C18: when two invocations of _create_new_client_event for the room have
\* both read the forward extremities before either event is persisted, both
\* finish without error with events of the same prev_events and the same
\* depth, and no invocation ever takes an event that is not persisted as a
\* parent.
C18_ConcurrentCreationsFork ==
    /\ \A p \in procs :
           pc[p] \in {"annotate", "build", "created"} =>
               /\ error[p] = NoError
               /\ ParentIds(builder[p]) \subseteq DOMAIN events
    /\ \A p \in procs, q \in procs :
           ( /\ p # q
             /\ pc[p] = "created" /\ pc[q] = "created"
             /\ ReadIsCurrent(p) /\ ReadIsCurrent(q) )
           => /\ event[p].prev_events = event[q].prev_events
              /\ event[p].depth = event[q].depth
              /\ event[p].event_id # event[q].event_id
              /\ event[p].event_id \notin ParentIds(event[q])
              /\ {event[p].event_id, event[q].event_id} \cap DOMAIN events = {}

C18_Witness ==
    \E p \in procs, q \in procs :
        /\ p # q
        /\ pc[p] = "created" /\ pc[q] = "created"
        /\ ReadIsCurrent(p) /\ ReadIsCurrent(q)
        /\ Len(event[p].prev_events) >= 1
        /\ event[p].prev_events = event[q].prev_events
        /\ event[p].depth = event[q].depth

====
